---- MODULE Spec2Model ----
(***************************************************************************)
(* Model of backend/app/main.py: the module-level deque cpu_buf, the       *)
(* sampler coroutine that appends to it, the two HTTP handlers and the     *)
(* /metrics/stream websocket coroutine, all multiplexed on one asyncio     *)
(* event loop.  A coroutine runs without interruption between two awaits, *)
(* so every action below is the code between two consecutive awaits.       *)
(*                                                                         *)
(* The sync handlers health and metrics_now run on worker threads; each    *)
(* reads cpu_buf with single deque operations that the interpreter makes   *)
(* atomic, and the buffer never becomes empty again once it is non-empty,  *)
(* so each handler is one atomic action.                                   *)
(***************************************************************************)
EXTENDS Integers, Sequences, FiniteSets, TLC

\* ---- bounds of the model ----
MaxCap == 3        \* deque(maxlen=...) ranges over 1..MaxCap (900 in the source)
MaxAppends == 3    \* the sampler's while True loop is cut after this many appends
NumSubs == 2       \* websocket connections opened during a run

Subs == 1..NumSubs

\* Python's None
None == [none |-> TRUE]

VARIABLES
    maxlen,      \* cpu_buf.maxlen
    cpu_buf,     \* the deque, oldest first
    hist,        \* every entry ever appended, in append order (history variable)
    samplerPc,   \* "unstarted" | "ready" | "sleeping" | "dead"
    pc,          \* per connection: "idle" | "accepting" | "sending" | "sleeping" | "closed"
    last_len,    \* per connection: the local last_len of stream()
    msg,         \* per connection: the payload handed to ws.send_json, None when no send is pending
    delivered,   \* per connection: payloads whose send_json has completed, in order
    resp,        \* last HTTP response produced
    cand,        \* the candidate handed to the validator: [cls |-> class name, val |-> value]
    verdict      \* "idle" | "pending" | "accepted" | "rejected"

vars == <<maxlen, cpu_buf, hist, samplerPc, pc, last_len, msg, delivered, resp, cand, verdict>>

\* the state of main.py
appVars == <<maxlen, cpu_buf, hist, samplerPc, pc, last_len, msg, delivered, resp>>

\* the state of a validation
valVars == <<cand, verdict>>

\* ---- deque(maxlen=N) ----

\* the mutant keeps the buffer as it is once it is full (drops the newest)
DequeAppend_DropNewest(buf, cap, x) ==
    IF Len(buf) = cap THEN buf ELSE Append(buf, x)

\* the mutant has no capacity limit
DequeAppend_NoEvict(buf, cap, x) ==
    Append(buf, x)

\* deque.append on a bounded deque: a full deque discards its left end first
DequeAppend(buf, cap, x) ==
    IF Len(buf) = cap THEN Append(Tail(buf), x) ELSE Append(buf, x)

\* the mutant reads cpu_buf[0], the oldest retained entry
Latest_Oldest(buf) == buf[1]

\* cpu_buf[-1]
Latest(buf) == buf[Len(buf)]

\* len(cpu_buf), the value stream() compares with last_len to detect a change
Version(buf) == Len(buf)

\* ---- sampler ----

\* the dict built in one cycle.  "t" is time.time(), here the ordinal of the cycle
\* (cycles are at least 1 s apart); "total" and "per_core" are readings that
\* main.py stores and forwards without ever looking at them, so the entry is
\* identified by "t" alone
CpuSample == [t |-> Len(hist) + 1]

\* @app.on_event("startup"): asyncio.create_task(sampler())
Startup ==
    /\ samplerPc = "unstarted"
    /\ samplerPc' = "ready"
    /\ UNCHANGED <<maxlen, cpu_buf, hist, pc, last_len, msg, delivered, resp, cand, verdict>>

\* the mutant goes round the loop without the await asyncio.sleep(1)
SamplerCycle_NoSleep ==
    /\ samplerPc = "ready"
    /\ Len(hist) < MaxAppends
    /\ cpu_buf' = DequeAppend(cpu_buf, maxlen, CpuSample)
    /\ hist' = Append(hist, CpuSample)
    /\ samplerPc' = "ready"
    /\ UNCHANGED <<maxlen, pc, last_len, msg, delivered, resp, cand, verdict>>

\* one pass of the loop body up to await asyncio.sleep(1)
SamplerCycle ==
    /\ samplerPc = "ready"
    /\ Len(hist) < MaxAppends
    /\ cpu_buf' = DequeAppend(cpu_buf, maxlen, CpuSample)
    /\ hist' = Append(hist, CpuSample)
    /\ samplerPc' = "sleeping"
    /\ UNCHANGED <<maxlen, pc, last_len, msg, delivered, resp, cand, verdict>>

\* the mutant catches the exception and goes on to the sleep (skip the cycle)
SamplerCollectFail_SkipCycle ==
    /\ samplerPc = "ready"
    /\ samplerPc' = "sleeping"
    /\ UNCHANGED <<maxlen, cpu_buf, hist, pc, last_len, msg, delivered, resp, cand, verdict>>

\* psutil raises while the dict is built: the exception ends the task, nothing is appended
SamplerCollectFail ==
    /\ samplerPc = "ready"
    /\ samplerPc' = "dead"
    /\ UNCHANGED <<maxlen, cpu_buf, hist, pc, last_len, msg, delivered, resp, cand, verdict>>

\* the mutant has no loop: after the sleep the coroutine returns
SamplerWake_Return ==
    /\ samplerPc = "sleeping"
    /\ samplerPc' = "done"
    /\ UNCHANGED <<maxlen, cpu_buf, hist, pc, last_len, msg, delivered, resp, cand, verdict>>

\* asyncio.sleep(1) returns
SamplerWake ==
    /\ samplerPc = "sleeping"
    /\ samplerPc' = "ready"
    /\ UNCHANGED <<maxlen, cpu_buf, hist, pc, last_len, msg, delivered, resp, cand, verdict>>

\* ---- HTTP handlers ----

\* the server answers requests only after the startup event has run
Serving == samplerPc # "unstarted"

\* the mutant reports the sampler's liveness instead of a constant
Health_ChecksSampler ==
    /\ Serving
    /\ resp' = [op |-> "health", status |-> 200, body |-> [ok |-> samplerPc # "dead"]]
    /\ UNCHANGED <<maxlen, cpu_buf, hist, samplerPc, pc, last_len, msg, delivered, cand, verdict>>

\* GET /health
Health ==
    /\ Serving
    /\ resp' = [op |-> "health", status |-> 200, body |-> [ok |-> TRUE]]
    /\ UNCHANGED <<maxlen, cpu_buf, hist, samplerPc, pc, last_len, msg, delivered, cand, verdict>>

\* the mutant indexes without the emptiness test: cpu_buf[-1] raises IndexError on an empty deque
MetricsNowResult_NoGuard(buf) ==
    IF buf = <<>>
    THEN [op |-> "metrics_now", status |-> 500, body |-> None]
    ELSE [op |-> "metrics_now", status |-> 200, body |-> [cpu |-> Latest(buf)]]

\* {"cpu": cpu_buf[-1] if cpu_buf else None}
MetricsNowResult(buf) ==
    [op |-> "metrics_now", status |-> 200,
     body |-> [cpu |-> IF buf # <<>> THEN Latest(buf) ELSE None]]

\* the mutant takes the entry out with cpu_buf.pop() instead of reading cpu_buf[-1]
MetricsNow_Pop ==
    /\ Serving
    /\ resp' = MetricsNowResult(cpu_buf)
    /\ cpu_buf' = IF cpu_buf = <<>> THEN cpu_buf ELSE SubSeq(cpu_buf, 1, Len(cpu_buf) - 1)
    /\ UNCHANGED <<maxlen, hist, samplerPc, pc, last_len, msg, delivered, cand, verdict>>

\* GET /metrics/now
MetricsNow ==
    /\ Serving
    /\ resp' = MetricsNowResult(cpu_buf)
    /\ UNCHANGED <<maxlen, cpu_buf, hist, samplerPc, pc, last_len, msg, delivered, cand, verdict>>

\* ---- /metrics/stream ----

\* the mutant indexes from the newest entry by the marker: cpu_buf[-1 - last_len]
StreamCheck_MarkerOffset(s, ll) ==
    IF Version(cpu_buf) # ll /\ cpu_buf # <<>>
    THEN /\ pc' = [pc EXCEPT ![s] = "sending"]
         /\ msg' = [msg EXCEPT ![s] = [cpu |-> cpu_buf[Len(cpu_buf) - ll]]]
    ELSE /\ pc' = [pc EXCEPT ![s] = "sleeping"]
         /\ msg' = msg

\* the mutant sends whenever the buffer is not empty, without the comparison with last_len
StreamCheck_NoChangeTest(s, ll) ==
    IF cpu_buf # <<>>
    THEN /\ pc' = [pc EXCEPT ![s] = "sending"]
         /\ msg' = [msg EXCEPT ![s] = [cpu |-> Latest(cpu_buf)]]
    ELSE /\ pc' = [pc EXCEPT ![s] = "sleeping"]
         /\ msg' = msg

\* line 46-47 and the await that follows: either send_json is entered with the
\* payload built from cpu_buf[-1], or the coroutine goes to asyncio.sleep(0.25)
StreamCheck(s, ll) ==
    IF Version(cpu_buf) # ll /\ cpu_buf # <<>>
    THEN /\ pc' = [pc EXCEPT ![s] = "sending"]
         /\ msg' = [msg EXCEPT ![s] = [cpu |-> Latest(cpu_buf)]]
    ELSE /\ pc' = [pc EXCEPT ![s] = "sleeping"]
         /\ msg' = msg

\* a client opens the websocket: the coroutine starts and waits in ws.accept();
\* connections are numbered in their order of arrival
Connect(s) ==
    /\ Serving
    /\ pc[s] = "idle"
    /\ \A o \in Subs : o < s => pc[o] # "idle"
    /\ pc' = [pc EXCEPT ![s] = "accepting"]
    /\ UNCHANGED <<maxlen, cpu_buf, hist, samplerPc, last_len, msg, delivered, resp, cand, verdict>>

\* the mutant starts the marker at the current length: last_len = len(cpu_buf)
Accept_MarkerAtCurrentLen(s) ==
    /\ pc[s] = "accepting"
    /\ last_len' = [last_len EXCEPT ![s] = Version(cpu_buf)]
    /\ StreamCheck(s, Version(cpu_buf))
    /\ UNCHANGED <<maxlen, cpu_buf, hist, samplerPc, delivered, resp, cand, verdict>>

\* ws.accept() returns: last_len = 0 and the first pass of the loop
Accept(s) ==
    /\ pc[s] = "accepting"
    /\ last_len' = [last_len EXCEPT ![s] = 0]
    /\ StreamCheck(s, 0)
    /\ UNCHANGED <<maxlen, cpu_buf, hist, samplerPc, delivered, resp, cand, verdict>>

\* the mutant reads cpu_buf[-1] only when the transport takes the payload, after the await
SendDone_LateRead(s) ==
    /\ pc[s] = "sending"
    /\ delivered' = [delivered EXCEPT ![s] = Append(@, [cpu |-> Latest(cpu_buf)])]
    /\ msg' = [msg EXCEPT ![s] = None]
    /\ last_len' = [last_len EXCEPT ![s] = Version(cpu_buf)]
    /\ pc' = [pc EXCEPT ![s] = "sleeping"]
    /\ UNCHANGED <<maxlen, cpu_buf, hist, samplerPc, resp, cand, verdict>>

\* ws.send_json returns: last_len = len(cpu_buf), then asyncio.sleep(0.25)
SendDone(s) ==
    /\ pc[s] = "sending"
    /\ delivered' = [delivered EXCEPT ![s] = Append(@, msg[s])]
    /\ msg' = [msg EXCEPT ![s] = None]
    /\ last_len' = [last_len EXCEPT ![s] = Version(cpu_buf)]
    /\ pc' = [pc EXCEPT ![s] = "sleeping"]
    /\ UNCHANGED <<maxlen, cpu_buf, hist, samplerPc, resp, cand, verdict>>

\* asyncio.sleep(0.25) returns: the next pass of the loop
Wake(s) ==
    /\ pc[s] = "sleeping"
    /\ StreamCheck(s, last_len[s])
    /\ UNCHANGED <<maxlen, cpu_buf, hist, samplerPc, last_len, delivered, resp, cand, verdict>>

\* the mutant tears down every connection when one fails
Disconnect_ClosesAll(s) ==
    /\ pc[s] \in {"accepting", "sending", "sleeping"}
    /\ pc' = [o \in Subs |-> IF pc[o] = "idle" THEN "idle" ELSE "closed"]
    /\ msg' = [o \in Subs |-> None]
    /\ last_len' = [o \in Subs |-> 0]
    /\ UNCHANGED <<maxlen, cpu_buf, hist, samplerPc, delivered, resp, cand, verdict>>

\* the await the coroutine is suspended in raises (transport closed, task
\* cancelled): nothing catches it, the coroutine ends and its locals are gone
Disconnect(s) ==
    /\ pc[s] \in {"accepting", "sending", "sleeping"}
    /\ pc' = [pc EXCEPT ![s] = "closed"]
    /\ msg' = [msg EXCEPT ![s] = None]
    /\ last_len' = [last_len EXCEPT ![s] = 0]
    /\ UNCHANGED <<maxlen, cpu_buf, hist, samplerPc, delivered, resp, cand, verdict>>

\* ---- the program ----

Init ==
    /\ maxlen \in 1..MaxCap
    /\ cpu_buf = <<>>
    /\ hist = <<>>
    /\ samplerPc = "unstarted"
    /\ pc = [s \in Subs |-> "idle"]
    /\ last_len = [s \in Subs |-> 0]
    /\ msg = [s \in Subs |-> None]
    /\ delivered = [s \in Subs |-> <<>>]
    /\ resp = [op |-> "none", status |-> 0, body |-> None]
    /\ cand = None
    /\ verdict = "idle"

Next ==
    \/ Startup
    \/ SamplerCycle
    \/ SamplerCollectFail
    \/ SamplerWake
    \/ Health
    \/ MetricsNow
    \/ \E s \in Subs : Connect(s)
    \/ \E s \in Subs : Accept(s)
    \/ \E s \in Subs : SendDone(s)
    \/ \E s \in Subs : Wake(s)
    \/ \E s \in Subs : Disconnect(s)

Spec == Init /\ [][Next]_vars

\* the event loop runs every task that is ready and fires every timer that is
\* due; a send on a healthy transport completes.  Nothing obliges clients to
\* connect or to disconnect, requests to arrive, or collection to fail.
Fairness ==
    /\ WF_vars(Startup)
    /\ WF_vars(SamplerCycle)
    /\ WF_vars(SamplerWake)
    /\ \A s \in Subs : WF_vars(Accept(s)) /\ WF_vars(SendDone(s)) /\ WF_vars(Wake(s))

FairSpec == Init /\ [][Next]_vars /\ Fairness

\* the event loop runs the sampler task when it is ready and ends its sleep
\* when it is due; nothing is assumed of requests and connections
SamplerFairness ==
    /\ WF_vars(Startup)
    /\ WF_vars(SamplerCycle)
    /\ WF_vars(SamplerWake)

SamplerFairSpec == Init /\ [][Next]_vars /\ SamplerFairness
\* ---- the snapshot contract (models/system_health.py) ----

\* values of a candidate: JSON-like data, tagged by kind
Num(n) == [num |-> n]
Str(x) == [str |-> x]
Bool(b) == [bool |-> b]
Datetime(n) == [datetime |-> n]
List(seq) == [list |-> seq]
Obj(rec) == [obj |-> rec]
Dict(rec) == [dict |-> rec]
Tuple(seq) == [tuple |-> seq]

\* annotations
TInt == [k |-> "int"]
TFloat == [k |-> "float"]
TStr == [k |-> "str"]
TBool == [k |-> "bool"]
TDatetime == [k |-> "datetime"]
TDict == [k |-> "dict"]
TTuple == [k |-> "tuple"]
TLit(S) == [k |-> "lit", vals |-> S]
TOpt(T) == [k |-> "opt", of |-> T]
TList(T) == [k |-> "list", of |-> T]
TModel(fields) == [k |-> "model", fields |-> fields]

\* one annotated attribute of a model class: a field without a default is
\* required; ge and le are <<bound>> when Field() gives the bound, <<>> otherwise
Fld(name, type, required, ge, le) ==
    [name |-> name, type |-> type, required |-> required, ge |-> ge, le |-> le]

\* Severity = Literal[...]
Severity == TLit({"info", "warning", "error", "critical"})

\* ServiceState = Literal[...]
ServiceState == TLit({"running", "stopped", "paused", "failed", "unknown"})

\* FirewallState = Literal[...]
FirewallState == TLit({"enabled", "disabled", "unknown"})

\* AVState = Literal[...]
AVState == TLit({"healthy", "out_of_date", "disabled", "unknown"})

\* OSType = Literal[...]
OSType == TLit({"windows", "linux", "macos", "bsd", "unknown"})

\* IFaceType = Literal[...]
IFaceType == TLit({"ethernet", "wifi", "loopback", "virtual", "cellular", "unknown"})

\* Protocol = Literal[...]
Protocol == TLit({"tcp", "udp", "icmp", "other"})

\* FilesystemType = Literal[...]
FilesystemType == TLit({"ntfs", "fat32", "exfat", "ext4", "xfs", "apfs", "btrfs", "zfs", "other"})

\* class Percent
Percent == <<
    Fld("value", TFloat, TRUE, <<0>>, <<100>>)
>>

\* class CPUCoreUsage
CPUCoreUsage == <<
    Fld("core_index", TInt, TRUE, <<0>>, <<>>),
    Fld("usage_pct", TFloat, TRUE, <<0>>, <<100>>)
>>

\* class CPUFrequency
CPUFrequency == <<
    Fld("current_mhz", TOpt(TFloat), FALSE, <<0>>, <<>>),
    Fld("min_mhz", TOpt(TFloat), FALSE, <<0>>, <<>>),
    Fld("max_mhz", TOpt(TFloat), FALSE, <<0>>, <<>>),
    Fld("turbo_mhz", TOpt(TFloat), FALSE, <<0>>, <<>>)
>>

\* class CPUTemperature
CPUTemperature == <<
    Fld("package_c", TOpt(TFloat), FALSE, <<>>, <<>>),
    Fld("per_core_c", TOpt(TList(TOpt(TFloat))), FALSE, <<>>, <<>>),
    Fld("hotspot_c", TOpt(TFloat), FALSE, <<>>, <<>>)
>>

\* class CPUThrottleStatus
CPUThrottleStatus == <<
    Fld("is_throttling", TBool, TRUE, <<>>, <<>>),
    Fld("reason", TOpt(TLit({"thermal", "power", "current", "other"})), FALSE, <<>>, <<>>)
>>

\* class CPUPower
CPUPower == <<
    Fld("watts", TOpt(TFloat), FALSE, <<0>>, <<>>),
    Fld("voltage_v", TOpt(TFloat), FALSE, <<0>>, <<>>)
>>

\* class CPULoadAverages
CPULoadAverages == <<
    Fld("over_1m", TOpt(TFloat), FALSE, <<0>>, <<>>),
    Fld("over_5m", TOpt(TFloat), FALSE, <<0>>, <<>>),
    Fld("over_15m", TOpt(TFloat), FALSE, <<0>>, <<>>)
>>

\* class TopCPUProcess
TopCPUProcess == <<
    Fld("pid", TInt, TRUE, <<>>, <<>>),
    Fld("name", TStr, TRUE, <<>>, <<>>),
    Fld("cpu_pct", TFloat, TRUE, <<0>>, <<100>>),
    Fld("user_time_s", TOpt(TFloat), FALSE, <<0>>, <<>>),
    Fld("system_time_s", TOpt(TFloat), FALSE, <<0>>, <<>>)
>>

\* the mutant declares the field with Field(ge=0.0) only
CPUModel_usage_total_pct_NoLe == Fld("usage_total_pct", TFloat, TRUE, <<0>>, <<>>)

\* CPUModel.usage_total_pct
CPUModel_usage_total_pct == Fld("usage_total_pct", TFloat, TRUE, <<0>>, <<100>>)

\* class CPUModel
CPUModel == <<
    Fld("timestamp", TDatetime, FALSE, <<>>, <<>>),
    Fld("sample_interval_s", TOpt(TFloat), FALSE, <<0>>, <<>>),
    Fld("physical_cores", TOpt(TInt), FALSE, <<1>>, <<>>),
    Fld("locial_cores", TOpt(TInt), FALSE, <<1>>, <<>>),
    CPUModel_usage_total_pct,
    Fld("per_core", TOpt(TList(TModel(CPUCoreUsage))), FALSE, <<>>, <<>>),
    Fld("frequency", TOpt(TModel(CPUFrequency)), FALSE, <<>>, <<>>),
    Fld("temperature", TOpt(TModel(CPUTemperature)), FALSE, <<>>, <<>>),
    Fld("throttle", TOpt(TModel(CPUThrottleStatus)), FALSE, <<>>, <<>>),
    Fld("power", TOpt(TModel(CPUPower)), FALSE, <<>>, <<>>),
    Fld("load_avg", TOpt(TModel(CPULoadAverages)), FALSE, <<>>, <<>>),
    Fld("context_switches_per_sec", TOpt(TFloat), FALSE, <<0>>, <<>>),
    Fld("interrupts_per_sec", TOpt(TFloat), FALSE, <<0>>, <<>>),
    Fld("top_processes", TOpt(TList(TModel(TopCPUProcess))), FALSE, <<>>, <<>>)
>>

\* class SwapStats
SwapStats == <<
    Fld("total_bytes", TInt, TRUE, <<0>>, <<>>),
    Fld("used_bytes", TInt, TRUE, <<0>>, <<>>),
    Fld("usage_pct", TOpt(TFloat), FALSE, <<0>>, <<100>>),
    Fld("swap_in_per_sec", TOpt(TFloat), FALSE, <<0>>, <<>>),
    Fld("swap_out_per_sec", TOpt(TFloat), FALSE, <<0>>, <<>>)
>>

\* PressureStatus.score
PressureStatus_score == Fld("score", TOpt(TFloat), FALSE, <<0>>, <<>>)

\* class PressureStatus
PressureStatus == <<
    Fld("instant", TOpt(TLit({"normal", "elevated", "critical"})), FALSE, <<>>, <<>>),
    PressureStatus_score
>>

\* class FaultStats
FaultStats == <<
    Fld("soft_per_sec", TOpt(TFloat), FALSE, <<0>>, <<>>),
    Fld("hard_per_sec", TOpt(TFloat), FALSE, <<0>>, <<>>)
>>

\* class WindowsRAMExtras
WindowsRAMExtras == <<
    Fld("commit_bytes", TOpt(TFloat), FALSE, <<0>>, <<>>),
    Fld("commit_limit_bytes", TOpt(TInt), FALSE, <<0>>, <<>>),
    Fld("paged_pool_bytes", TOpt(TInt), FALSE, <<0>>, <<>>),
    Fld("nonpaged_pool_bytes", TOpt(TInt), FALSE, <<0>>, <<>>)
>>

\* class LinuxRAMExtras
LinuxRAMExtras == <<
    Fld("buffers_bytes", TOpt(TInt), FALSE, <<0>>, <<>>),
    Fld("slab_bytes", TOpt(TInt), FALSE, <<0>>, <<>>),
    Fld("psi_mem_some", TOpt(TFloat), FALSE, <<0>>, <<>>),
    Fld("psi_mem_full", TOpt(TFloat), FALSE, <<0>>, <<>>),
    Fld("thp_enabled", TOpt(TBool), FALSE, <<>>, <<>>),
    Fld("zswap_in_use_bytes", TOpt(TInt), FALSE, <<0>>, <<>>),
    Fld("zram_in_use_bytes", TOpt(TInt), FALSE, <<0>>, <<>>)
>>

\* class MacOSRAMExtras
MacOSRAMExtras == <<
    Fld("wired_bytes", TOpt(TInt), FALSE, <<0>>, <<>>)
>>

\* class PlatformRAMExtras
PlatformRAMExtras == <<
    Fld("windows", TOpt(TModel(WindowsRAMExtras)), FALSE, <<>>, <<>>),
    Fld("linux", TOpt(TModel(LinuxRAMExtras)), FALSE, <<>>, <<>>),
    Fld("macos", TOpt(TModel(MacOSRAMExtras)), FALSE, <<>>, <<>>)
>>

\* class TopMemoryProcess
TopMemoryProcess == <<
    Fld("pid", TInt, TRUE, <<>>, <<>>),
    Fld("name", TStr, TRUE, <<>>, <<>>),
    Fld("rss_bytes", TInt, TRUE, <<0>>, <<>>),
    Fld("share_pct", TOpt(TFloat), FALSE, <<0>>, <<100>>),
    Fld("hard_faults_per_sec", TOpt(TFloat), FALSE, <<0>>, <<>>)
>>

\* class RAMModel
RAMModel == <<
    Fld("timestamp", TDatetime, FALSE, <<>>, <<>>),
    Fld("sample_interval_s", TOpt(TFloat), FALSE, <<0>>, <<>>),
    Fld("total_bytes", TInt, TRUE, <<0>>, <<>>),
    Fld("used_effective_bytes", TInt, TRUE, <<0>>, <<>>),
    Fld("available_bytes", TInt, TRUE, <<0>>, <<>>),
    Fld("usage_pct", TFloat, TRUE, <<0>>, <<100>>),
    Fld("cache_bytes", TOpt(TInt), FALSE, <<0>>, <<>>),
    Fld("kernal_bytes", TOpt(TInt), FALSE, <<0>>, <<>>),
    Fld("compressed_bytes", TOpt(TInt), FALSE, <<0>>, <<>>),
    Fld("swap", TOpt(TModel(SwapStats)), FALSE, <<>>, <<>>),
    Fld("pressure", TOpt(TModel(PressureStatus)), FALSE, <<>>, <<>>),
    Fld("faults", TOpt(TModel(FaultStats)), FALSE, <<>>, <<>>),
    Fld("platform", TOpt(TModel(PlatformRAMExtras)), FALSE, <<>>, <<>>),
    Fld("top_processes", TOpt(TList(TModel(TopMemoryProcess))), FALSE, <<>>, <<>>)
>>

\* class DiskPartition
DiskPartition == <<
    Fld("device", TStr, TRUE, <<>>, <<>>),
    Fld("mount_point", TStr, TRUE, <<>>, <<>>),
    Fld("fs_type", FilesystemType, TRUE, <<>>, <<>>),
    Fld("total_bytes", TInt, TRUE, <<0>>, <<>>),
    Fld("used_bytes", TInt, TRUE, <<0>>, <<>>),
    Fld("free_bytes", TInt, TRUE, <<0>>, <<>>),
    Fld("usage_pct", TOpt(TFloat), FALSE, <<0>>, <<100>>),
    Fld("read_only", TOpt(TBool), FALSE, <<>>, <<>>)
>>

\* class DiskIOStats
DiskIOStats == <<
    Fld("device", TStr, TRUE, <<>>, <<>>),
    Fld("read_bytes_per_sec", TOpt(TFloat), FALSE, <<0>>, <<>>),
    Fld("write_bytes_per_sec", TOpt(TFloat), FALSE, <<0>>, <<>>),
    Fld("read_iops", TOpt(TFloat), FALSE, <<0>>, <<>>),
    Fld("write_iops", TOpt(TFloat), FALSE, <<0>>, <<>>),
    Fld("avg_read_ms", TOpt(TFloat), FALSE, <<0>>, <<>>),
    Fld("avg_write_ms", TOpt(TFloat), FALSE, <<0>>, <<>>)
>>

\* class SmartAttribute
SmartAttribute == <<
    Fld("id", TOpt(TInt), FALSE, <<>>, <<>>),
    Fld("name", TStr, TRUE, <<>>, <<>>),
    Fld("value", TOpt(TFloat), FALSE, <<>>, <<>>),
    Fld("worst", TOpt(TFloat), FALSE, <<>>, <<>>),
    Fld("threshold", TOpt(TFloat), FALSE, <<>>, <<>>),
    Fld("raw", TOpt(TStr), FALSE, <<>>, <<>>),
    Fld("failed", TOpt(TBool), FALSE, <<>>, <<>>)
>>

\* class DiskHealth
DiskHealth == <<
    Fld("device", TStr, TRUE, <<>>, <<>>),
    Fld("smart_overall_pass", TOpt(TBool), FALSE, <<>>, <<>>),
    Fld("temperature_c", TOpt(TFloat), FALSE, <<>>, <<>>),
    Fld("attributes", TOpt(TList(TModel(SmartAttribute))), FALSE, <<>>, <<>>)
>>

\* class StorageModel
StorageModel == <<
    Fld("timestamp", TDatetime, FALSE, <<>>, <<>>),
    Fld("partitions", TList(TModel(DiskPartition)), TRUE, <<>>, <<>>),
    Fld("io", TOpt(TList(TModel(DiskIOStats))), FALSE, <<>>, <<>>),
    Fld("health", TOpt(TList(TModel(DiskHealth))), FALSE, <<>>, <<>>)
>>

\* class AddressInfo
AddressInfo == <<
    Fld("ipv4", TOpt(TStr), FALSE, <<>>, <<>>),
    Fld("ipv6", TOpt(TStr), FALSE, <<>>, <<>>),
    Fld("mac", TOpt(TStr), FALSE, <<>>, <<>>)
>>

\* class InterfaceCounters
InterfaceCounters == <<
    Fld("bytes_sent_per_sec", TOpt(TFloat), FALSE, <<0>>, <<>>),
    Fld("bytes_recv_per_sec", TOpt(TFloat), FALSE, <<0>>, <<>>),
    Fld("packets_sent_per_sec", TOpt(TFloat), FALSE, <<0>>, <<>>),
    Fld("packets_recv_per_sec", TOpt(TFloat), FALSE, <<0>>, <<>>),
    Fld("err_in_per_sec", TOpt(TFloat), FALSE, <<0>>, <<>>),
    Fld("err_out_per_sec", TOpt(TFloat), FALSE, <<0>>, <<>>),
    Fld("drop_in_per_sec", TOpt(TFloat), FALSE, <<0>>, <<>>),
    Fld("drop_out_per_sec", TOpt(TFloat), FALSE, <<0>>, <<>>)
>>

\* class NetworkInterface
NetworkInterface == <<
    Fld("name", TStr, TRUE, <<>>, <<>>),
    Fld("type", IFaceType, FALSE, <<>>, <<>>),
    Fld("is_up", TBool, TRUE, <<>>, <<>>),
    Fld("speed_mbps", TOpt(TFloat), FALSE, <<0>>, <<>>),
    Fld("duplex", TOpt(TLit({"full", "half", "unknown"})), FALSE, <<>>, <<>>),
    Fld("mtu", TOpt(TInt), FALSE, <<0>>, <<>>),
    Fld("counters", TOpt(TModel(InterfaceCounters)), FALSE, <<>>, <<>>)
>>

\* class ConnectionStat
ConnectionStat == <<
    Fld("protocol", Protocol, FALSE, <<>>, <<>>),
    Fld("local_addr", TOpt(TTuple), FALSE, <<>>, <<>>),
    Fld("remote_addr", TOpt(TTuple), FALSE, <<>>, <<>>),
    Fld("status", TOpt(TStr), FALSE, <<>>, <<>>),
    Fld("pid", TOpt(TInt), FALSE, <<>>, <<>>)
>>

\* class LatencyProbe
LatencyProbe == <<
    Fld("name", TStr, TRUE, <<>>, <<>>),
    Fld("target", TStr, TRUE, <<>>, <<>>),
    Fld("rtt_ms", TOpt(TFloat), FALSE, <<0>>, <<>>),
    Fld("packet_loss_pct", TOpt(TFloat), FALSE, <<0>>, <<100>>)
>>

\* class NetworkModel
NetworkModel == <<
    Fld("timestamp", TDatetime, FALSE, <<>>, <<>>),
    Fld("interfaces", TList(TModel(NetworkInterface)), TRUE, <<>>, <<>>),
    Fld("connections_sample", TOpt(TList(TModel(ConnectionStat))), FALSE, <<>>, <<>>),
    Fld("probes", TOpt(TList(TModel(LatencyProbe))), FALSE, <<>>, <<>>)
>>

\* class TempSensorReading
TempSensorReading == <<
    Fld("name", TStr, TRUE, <<>>, <<>>),
    Fld("temperature_c", TOpt(TFloat), FALSE, <<>>, <<>>)
>>

\* class FanReading
FanReading == <<
    Fld("name", TStr, TRUE, <<>>, <<>>),
    Fld("rpm", TOpt(TInt), FALSE, <<0>>, <<>>)
>>

\* BatteryStatus.health_pct
BatteryStatus_health_pct == Fld("health_pct", TOpt(TFloat), FALSE, <<0>>, <<>>)

\* class BatteryStatus
BatteryStatus == <<
    Fld("present", TBool, TRUE, <<>>, <<>>),
    Fld("percent", TOpt(TFloat), FALSE, <<0>>, <<100>>),
    Fld("charge_watts", TOpt(TFloat), FALSE, <<0>>, <<>>),
    Fld("discharge_watts", TOpt(TFloat), FALSE, <<0>>, <<>>),
    Fld("is_charging", TOpt(TBool), FALSE, <<>>, <<>>),
    Fld("cycles", TOpt(TInt), FALSE, <<0>>, <<>>),
    BatteryStatus_health_pct,
    Fld("design_capacity_wh", TOpt(TFloat), FALSE, <<0>>, <<>>),
    Fld("full_charge_capacity_wh", TOpt(TFloat), FALSE, <<0>>, <<>>)
>>

\* class GPUProcess
GPUProcess == <<
    Fld("pid", TInt, TRUE, <<>>, <<>>),
    Fld("name", TStr, TRUE, <<>>, <<>>),
    Fld("gpu_util_pct", TOpt(TFloat), FALSE, <<0>>, <<100>>),
    Fld("vram_bytes", TOpt(TInt), FALSE, <<0>>, <<>>)
>>

\* class GPUModel
GPUModel == <<
    Fld("name", TStr, TRUE, <<>>, <<>>),
    Fld("vendor", TOpt(TStr), FALSE, <<>>, <<>>),
    Fld("driver_version", TOpt(TStr), FALSE, <<>>, <<>>),
    Fld("usage_pct", TOpt(TFloat), FALSE, <<0>>, <<100>>),
    Fld("vram_total_bytes", TOpt(TInt), FALSE, <<0>>, <<>>),
    Fld("vram_used_bytes", TOpt(TInt), FALSE, <<0>>, <<>>),
    Fld("temperature_c", TOpt(TFloat), FALSE, <<>>, <<>>),
    Fld("power_watts", TOpt(TFloat), FALSE, <<0>>, <<>>),
    Fld("processes", TOpt(TList(TModel(GPUProcess))), FALSE, <<>>, <<>>)
>>

\* class HardwareHealthModel
HardwareHealthModel == <<
    Fld("timestamp", TDatetime, FALSE, <<>>, <<>>),
    Fld("temperatures", TOpt(TList(TModel(TempSensorReading))), FALSE, <<>>, <<>>),
    Fld("fans", TOpt(TList(TModel(FanReading))), FALSE, <<>>, <<>>),
    Fld("battery", TOpt(TModel(BatteryStatus)), FALSE, <<>>, <<>>),
    Fld("gpus", TOpt(TList(TModel(GPUModel))), FALSE, <<>>, <<>>)
>>

\* class TopIOProcess
TopIOProcess == <<
    Fld("pid", TInt, TRUE, <<>>, <<>>),
    Fld("name", TStr, TRUE, <<>>, <<>>),
    Fld("read_bytes_per_sec", TOpt(TFloat), FALSE, <<0>>, <<>>),
    Fld("write_bytes_per_sec", TOpt(TFloat), FALSE, <<0>>, <<>>)
>>

\* class ProcessSnapshot
ProcessSnapshot == <<
    Fld("total_processes", TOpt(TInt), FALSE, <<0>>, <<>>),
    Fld("runnning", TOpt(TInt), FALSE, <<0>>, <<>>),
    Fld("sleeping", TOpt(TInt), FALSE, <<0>>, <<>>),
    Fld("stopped", TOpt(TInt), FALSE, <<0>>, <<>>),
    Fld("zombies", TOpt(TInt), FALSE, <<0>>, <<>>),
    Fld("top_cpu", TOpt(TList(TModel(TopCPUProcess))), FALSE, <<>>, <<>>),
    Fld("top_mem", TOpt(TList(TModel(TopMemoryProcess))), FALSE, <<>>, <<>>),
    Fld("top_io", TOpt(TList(TModel(TopIOProcess))), FALSE, <<>>, <<>>)
>>

\* class ServiceStatus
ServiceStatus == <<
    Fld("name", TStr, TRUE, <<>>, <<>>),
    Fld("state", ServiceState, TRUE, <<>>, <<>>),
    Fld("uptime_s", TOpt(TFloat), FALSE, <<0>>, <<>>),
    Fld("restart_count", TOpt(TInt), FALSE, <<0>>, <<>>)
>>

\* class ServicesModel
ServicesModel == <<
    Fld("timestamp", TDatetime, FALSE, <<>>, <<>>),
    Fld("critical", TOpt(TList(TModel(ServiceStatus))), FALSE, <<>>, <<>>),
    Fld("others", TOpt(TList(TModel(ServiceStatus))), FALSE, <<>>, <<>>)
>>

\* class BootInfo
BootInfo == <<
    Fld("last_boot_time", TOpt(TDatetime), FALSE, <<>>, <<>>),
    Fld("uptime_s", TOpt(TFloat), FALSE, <<0>>, <<>>),
    Fld("previous_boot_times", TOpt(TList(TDatetime)), FALSE, <<>>, <<>>)
>>

\* class LogEvent
LogEvent == <<
    Fld("time", TDatetime, TRUE, <<>>, <<>>),
    Fld("source", TStr, TRUE, <<>>, <<>>),
    Fld("severity", Severity, TRUE, <<>>, <<>>),
    Fld("code", TOpt(TStr), FALSE, <<>>, <<>>),
    Fld("message", TStr, TRUE, <<>>, <<>>),
    Fld("count", TOpt(TInt), FALSE, <<1>>, <<>>)
>>

\* class LogsModel
LogsModel == <<
    Fld("timestamp", TDatetime, FALSE, <<>>, <<>>),
    Fld("recent_critical", TOpt(TList(TModel(LogEvent))), FALSE, <<>>, <<>>),
    Fld("recent_warnings", TOpt(TList(TModel(LogEvent))), FALSE, <<>>, <<>>)
>>

\* class CrashRecord
CrashRecord == <<
    Fld("time", TDatetime, TRUE, <<>>, <<>>),
    Fld("component", TStr, TRUE, <<>>, <<>>),
    Fld("type", TLit({"app_crash", "driver_fault", "kernal_panic", "bsod", "other"}), TRUE, <<>>, <<>>),
    Fld("exit_code", TOpt(TStr), FALSE, <<>>, <<>>),
    Fld("dump_path", TOpt(TStr), FALSE, <<>>, <<>>)
>>

\* class CrashMonitorModel
CrashMonitorModel == <<
    Fld("timestamp", TDatetime, TRUE, <<>>, <<>>),
    Fld("recent", TOpt(TList(TModel(CrashRecord))), FALSE, <<>>, <<>>)
>>

\* class SecurityFinding
SecurityFinding == <<
    Fld("time", TDatetime, TRUE, <<>>, <<>>),
    Fld("tite", TStr, TRUE, <<>>, <<>>),
    Fld("severity", Severity, TRUE, <<>>, <<>>),
    Fld("details", TOpt(TStr), FALSE, <<>>, <<>>)
>>

\* class SecurityModel
SecurityModel == <<
    Fld("timestamp", TDatetime, FALSE, <<>>, <<>>),
    Fld("firewall", FirewallState, FALSE, <<>>, <<>>),
    Fld("av", AVState, FALSE, <<>>, <<>>),
    Fld("av_definitions_age_days", TOpt(TFloat), FALSE, <<0>>, <<>>),
    Fld("suspicious_processes", TOpt(TList(TInt)), FALSE, <<>>, <<>>),
    Fld("findings", TOpt(TList(TModel(SecurityFinding))), FALSE, <<>>, <<>>)
>>

\* class ContainerStat
ContainerStat == <<
    Fld("id", TStr, TRUE, <<>>, <<>>),
    Fld("name", TOpt(TStr), FALSE, <<>>, <<>>),
    Fld("cpu_pct", TOpt(TFloat), FALSE, <<0>>, <<100>>),
    Fld("mem_bytes", TOpt(TInt), FALSE, <<0>>, <<>>),
    Fld("mem_limit_bytes", TOpt(TInt), FALSE, <<0>>, <<>>),
    Fld("net_rx_bytes_per_sec", TOpt(TFloat), FALSE, <<0>>, <<>>),
    Fld("net_tx_bytes_per_sec", TOpt(TFloat), FALSE, <<0>>, <<>>),
    Fld("state", TOpt(TStr), FALSE, <<>>, <<>>)
>>

\* class VMStat
VMStat == <<
    Fld("name", TStr, TRUE, <<>>, <<>>),
    Fld("vcpu_count", TOpt(TInt), FALSE, <<1>>, <<>>),
    Fld("cpu_pct", TOpt(TFloat), FALSE, <<0>>, <<100>>),
    Fld("mem_bytes", TOpt(TInt), FALSE, <<0>>, <<>>),
    Fld("mem_limit_bytes", TOpt(TInt), FALSE, <<0>>, <<>>),
    Fld("state", TOpt(TStr), FALSE, <<>>, <<>>)
>>

\* class VirtualizationModel
VirtualizationModel == <<
    Fld("timestamp", TDatetime, FALSE, <<>>, <<>>),
    Fld("Containers", TOpt(TList(TModel(ContainerStat))), FALSE, <<>>, <<>>),
    Fld("vms", TOpt(TList(TModel(VMStat))), FALSE, <<>>, <<>>),
    Fld("hypervisor", TOpt(TStr), FALSE, <<>>, <<>>)
>>

\* class EndpointHealth
EndpointHealth == <<
    Fld("name", TStr, TRUE, <<>>, <<>>),
    Fld("url_or_host", TStr, TRUE, <<>>, <<>>),
    Fld("status", TLit({"up", "degraded", "down", "unknown"}), FALSE, <<>>, <<>>),
    Fld("latency_ms", TOpt(TFloat), FALSE, <<0>>, <<>>),
    Fld("last_ok", TOpt(TDatetime), FALSE, <<>>, <<>>),
    Fld("http_status", TOpt(TInt), FALSE, <<>>, <<>>),
    Fld("error", TOpt(TStr), FALSE, <<>>, <<>>)
>>

\* class RemoteConnectivityModel
RemoteConnectivityModel == <<
    Fld("timestamp", TDatetime, FALSE, <<>>, <<>>),
    Fld("endpoints", TOpt(TList(TModel(EndpointHealth))), FALSE, <<>>, <<>>)
>>

\* class Alert
Alert == <<
    Fld("time", TDatetime, FALSE, <<>>, <<>>),
    Fld("scope", TLit({"cpu", "ram", "storage", "network", "hardware", "gpu", "processes", "services", "boot", "logs", "crash", "security", "virtualization", "remote", "system"}), TRUE, <<>>, <<>>),
    Fld("severity", Severity, TRUE, <<>>, <<>>),
    Fld("title", TStr, TRUE, <<>>, <<>>),
    Fld("details", TOpt(TStr), FALSE, <<>>, <<>>)
>>

\* class HostInfo
HostInfo == <<
    Fld("hostname", TOpt(TStr), FALSE, <<>>, <<>>),
    Fld("os", OSType, FALSE, <<>>, <<>>),
    Fld("os_version", TOpt(TStr), FALSE, <<>>, <<>>),
    Fld("kernel_version", TOpt(TStr), FALSE, <<>>, <<>>),
    Fld("arch", TOpt(TStr), FALSE, <<>>, <<>>),
    Fld("serial_or_uuid", TOpt(TStr), FALSE, <<>>, <<>>),
    Fld("tags", TOpt(TDict), FALSE, <<>>, <<>>)
>>

\* SystemHealthSnapShot.collected_at
SystemHealthSnapShot_collected_at == Fld("collected_at", TDatetime, FALSE, <<>>, <<>>)

\* the mutant declares the field as "host: Optional[HostInfo] = None"
SystemHealthSnapShot_host_Optional == Fld("host", TOpt(TModel(HostInfo)), FALSE, <<>>, <<>>)

\* SystemHealthSnapShot.host
SystemHealthSnapShot_host == Fld("host", TModel(HostInfo), TRUE, <<>>, <<>>)

\* the mutant declares the panel as "storage: StorageModel", without Optional and default
SystemHealthSnapShot_storage_Required == Fld("storage", TModel(StorageModel), TRUE, <<>>, <<>>)

\* SystemHealthSnapShot.storage
SystemHealthSnapShot_storage == Fld("storage", TOpt(TModel(StorageModel)), FALSE, <<>>, <<>>)

\* class SystemHealthSnapShot
SystemHealthSnapShot == <<
    SystemHealthSnapShot_collected_at,
    Fld("sample_interval_s", TOpt(TFloat), FALSE, <<0>>, <<>>),
    SystemHealthSnapShot_host,
    Fld("cpu", TOpt(TModel(CPUModel)), FALSE, <<>>, <<>>),
    Fld("ram", TOpt(TModel(RAMModel)), FALSE, <<>>, <<>>),
    SystemHealthSnapShot_storage,
    Fld("network", TOpt(TModel(NetworkModel)), FALSE, <<>>, <<>>),
    Fld("hardware", TOpt(TModel(HardwareHealthModel)), FALSE, <<>>, <<>>),
    Fld("processes", TOpt(TModel(ProcessSnapshot)), FALSE, <<>>, <<>>),
    Fld("services", TOpt(TModel(ServicesModel)), FALSE, <<>>, <<>>),
    Fld("boot", TOpt(TModel(BootInfo)), FALSE, <<>>, <<>>),
    Fld("logs", TOpt(TModel(LogsModel)), FALSE, <<>>, <<>>),
    Fld("crash", TOpt(TModel(CrashMonitorModel)), FALSE, <<>>, <<>>),
    Fld("security", TOpt(TModel(SecurityModel)), FALSE, <<>>, <<>>),
    Fld("virtualization", TOpt(TModel(VirtualizationModel)), FALSE, <<>>, <<>>),
    Fld("remote", TOpt(TModel(RemoteConnectivityModel)), FALSE, <<>>, <<>>),
    Fld("alerts", TOpt(TList(TModel(Alert))), FALSE, <<>>, <<>>)
>>

\* the model class of that name
ModelByName(n) ==
    CASE n = "Percent" -> Percent
      [] n = "CPUCoreUsage" -> CPUCoreUsage
      [] n = "CPUFrequency" -> CPUFrequency
      [] n = "CPUTemperature" -> CPUTemperature
      [] n = "CPUThrottleStatus" -> CPUThrottleStatus
      [] n = "CPUPower" -> CPUPower
      [] n = "CPULoadAverages" -> CPULoadAverages
      [] n = "TopCPUProcess" -> TopCPUProcess
      [] n = "CPUModel" -> CPUModel
      [] n = "SwapStats" -> SwapStats
      [] n = "PressureStatus" -> PressureStatus
      [] n = "FaultStats" -> FaultStats
      [] n = "WindowsRAMExtras" -> WindowsRAMExtras
      [] n = "LinuxRAMExtras" -> LinuxRAMExtras
      [] n = "MacOSRAMExtras" -> MacOSRAMExtras
      [] n = "PlatformRAMExtras" -> PlatformRAMExtras
      [] n = "TopMemoryProcess" -> TopMemoryProcess
      [] n = "RAMModel" -> RAMModel
      [] n = "DiskPartition" -> DiskPartition
      [] n = "DiskIOStats" -> DiskIOStats
      [] n = "SmartAttribute" -> SmartAttribute
      [] n = "DiskHealth" -> DiskHealth
      [] n = "StorageModel" -> StorageModel
      [] n = "AddressInfo" -> AddressInfo
      [] n = "InterfaceCounters" -> InterfaceCounters
      [] n = "NetworkInterface" -> NetworkInterface
      [] n = "ConnectionStat" -> ConnectionStat
      [] n = "LatencyProbe" -> LatencyProbe
      [] n = "NetworkModel" -> NetworkModel
      [] n = "TempSensorReading" -> TempSensorReading
      [] n = "FanReading" -> FanReading
      [] n = "BatteryStatus" -> BatteryStatus
      [] n = "GPUProcess" -> GPUProcess
      [] n = "GPUModel" -> GPUModel
      [] n = "HardwareHealthModel" -> HardwareHealthModel
      [] n = "TopIOProcess" -> TopIOProcess
      [] n = "ProcessSnapshot" -> ProcessSnapshot
      [] n = "ServiceStatus" -> ServiceStatus
      [] n = "ServicesModel" -> ServicesModel
      [] n = "BootInfo" -> BootInfo
      [] n = "LogEvent" -> LogEvent
      [] n = "LogsModel" -> LogsModel
      [] n = "CrashRecord" -> CrashRecord
      [] n = "CrashMonitorModel" -> CrashMonitorModel
      [] n = "SecurityFinding" -> SecurityFinding
      [] n = "SecurityModel" -> SecurityModel
      [] n = "ContainerStat" -> ContainerStat
      [] n = "VMStat" -> VMStat
      [] n = "VirtualizationModel" -> VirtualizationModel
      [] n = "EndpointHealth" -> EndpointHealth
      [] n = "RemoteConnectivityModel" -> RemoteConnectivityModel
      [] n = "Alert" -> Alert
      [] n = "HostInfo" -> HostInfo
      [] n = "SystemHealthSnapShot" -> SystemHealthSnapShot

\* ---- validation ----

RECURSIVE ValidValue(_, _, _)
RECURSIVE ValidModel(_, _)

\* the mutant ignores the upper bound
InBounds_NoLe(f, n) ==
    f.ge = <<>> \/ n >= f.ge[1]

\* ge / le of Field()
InBounds(f, n) ==
    /\ f.ge = <<>> \/ n >= f.ge[1]
    /\ f.le = <<>> \/ n <= f.le[1]

\* a value against the annotation T of field f.  Only values of the annotated
\* kind are accepted: no candidate below relies on a coercion between kinds
ValidValue(T, f, v) ==
    CASE T.k = "opt" -> v = None \/ ValidValue(T.of, f, v)
      [] T.k \in {"int", "float"} -> DOMAIN v = {"num"} /\ InBounds(f, v.num)
      [] T.k = "str" -> DOMAIN v = {"str"}
      [] T.k = "bool" -> DOMAIN v = {"bool"}
      [] T.k = "datetime" -> DOMAIN v = {"datetime"}
      [] T.k = "dict" -> DOMAIN v = {"dict"}
      [] T.k = "tuple" -> DOMAIN v = {"tuple"}
      [] T.k = "lit" -> DOMAIN v = {"str"} /\ v.str \in T.vals
      [] T.k = "list" ->
            /\ DOMAIN v = {"list"}
            /\ \A i \in 1..Len(v.list) : ValidValue(T.of, f, v.list[i])
      [] T.k = "model" -> ValidModel(T.fields, v)

\* a mapping against a model class: a missing key is an error only for a
\* required field (defaults are not validated), keys the class does not
\* declare are ignored
ValidModel(fields, v) ==
    /\ DOMAIN v = {"obj"}
    /\ \A i \in 1..Len(fields) :
          IF fields[i].name \in DOMAIN v.obj
          THEN ValidValue(fields[i].type, fields[i], v.obj[fields[i].name])
          ELSE ~fields[i].required

\* validate(candidate) for the class named cls
Validate(cls, v) ==
    IF ValidModel(ModelByName(cls), v) THEN "accepted" ELSE "rejected"

\* ---- candidates ----

\* numbers a numeric field of a candidate takes
Vals == {-1, 0, 50, 100, 101}

\* marks a key that the candidate does not have
Absent == [absent |-> TRUE]

\* the mapping without its absent keys
Strip(rec) == [n \in {x \in DOMAIN rec : rec[x] # Absent} |-> rec[n]]

\* the mapping with key n set to v
WithField(rec, n, v) == [x \in DOMAIN rec \cup {n} |-> IF x = n THEN v ELSE rec[x]]

RECURSIVE SampleValue(_)
RECURSIVE Sample(_)

\* a well-formed value for annotation T
SampleValue(T) ==
    CASE T.k = "opt" -> None
      [] T.k \in {"int", "float"} -> Num(1)
      [] T.k = "str" -> Str("x")
      [] T.k = "bool" -> Bool(TRUE)
      [] T.k = "datetime" -> Datetime(1)
      [] T.k = "dict" -> Dict(<<>>)
      [] T.k = "tuple" -> Tuple(<<>>)
      [] T.k = "lit" -> Str(CHOOSE x \in T.vals : TRUE)
      [] T.k = "list" -> List(<<SampleValue(T.of)>>)
      [] T.k = "model" -> Sample(T.fields)

\* the smallest well-formed instance of a model class: its required fields only
Sample(fields) ==
    LET req == {i \in 1..Len(fields) : fields[i].required}
    IN  Obj([n \in {fields[i].name : i \in req} |->
                SampleValue(fields[CHOOSE i \in req : fields[i].name = n].type)])

\* CPU panels: every combination of the listed values of four fields
CPUCandidates ==
    {[cls |-> "CPUModel",
      val |-> Obj(Strip([usage_total_pct |-> u, sample_interval_s |-> si,
                         physical_cores |-> cores, per_core |-> pcr]))] :
        u \in {Absent} \cup {Num(v) : v \in Vals},
        si \in {Absent, None, Num(-1), Num(1)},
        cores \in {Absent, Num(0), Num(4)},
        pcr \in {Absent, List(<<>>),
                 List(<<Obj([core_index |-> Num(0), usage_pct |-> Num(50)])>>),
                 List(<<Obj([core_index |-> Num(0), usage_pct |-> Num(101)])>>)}}

\* the numeric fields that hold a percentage, by name (_pct, percent) or by
\* docstring (Percent.value, PressureStatus.score)
PercentFields == {
    <<"Percent", "value">>,
    <<"CPUCoreUsage", "usage_pct">>,
    <<"TopCPUProcess", "cpu_pct">>,
    <<"CPUModel", "usage_total_pct">>,
    <<"SwapStats", "usage_pct">>,
    <<"PressureStatus", "score">>,
    <<"TopMemoryProcess", "share_pct">>,
    <<"RAMModel", "usage_pct">>,
    <<"DiskPartition", "usage_pct">>,
    <<"LatencyProbe", "packet_loss_pct">>,
    <<"BatteryStatus", "percent">>,
    <<"BatteryStatus", "health_pct">>,
    <<"GPUProcess", "gpu_util_pct">>,
    <<"GPUModel", "usage_pct">>,
    <<"ContainerStat", "cpu_pct">>,
    <<"VMStat", "cpu_pct">>}

\* for every percentage field: an otherwise minimal well-formed instance of its
\* class with the field set to each value
PercentCandidates ==
    {[cls |-> pf[1],
      val |-> Obj(WithField(Sample(ModelByName(pf[1])).obj, pf[2], Num(v)))] :
        pf \in PercentFields, v \in Vals}

\* the optional panels of a snapshot
Panels == {"cpu", "ram", "storage", "network", "hardware", "processes", "services",
           "boot", "logs", "crash", "security", "virtualization", "remote"}

\* the field of SystemHealthSnapShot named n
SnapShotField(n) ==
    SystemHealthSnapShot[CHOOSE i \in 1..Len(SystemHealthSnapShot) : SystemHealthSnapShot[i].name = n]

\* a well-formed value for panel n
SamplePanel(n) ==
    LET T == SnapShotField(n).type
    IN  SampleValue(IF T.k = "opt" THEN T.of ELSE T)

\* a well-formed value for every panel
PanelSamples == [n \in Panels |-> SamplePanel(n)]

\* a well-formed host identity
HostSample == Sample(HostInfo)

\* a snapshot with the panels in present (each well-formed) and the others
\* absent, host h and collected_at at
SnapShotCandidate(present, h, at) ==
    [cls |-> "SystemHealthSnapShot",
     val |-> Obj(Strip([n \in Panels \cup {"host", "collected_at"} |->
                CASE n = "host" -> h
                  [] n = "collected_at" -> at
                  [] OTHER -> IF n \in present THEN PanelSamples[n] ELSE Absent]))]

\* one malformed panel in an otherwise well-formed snapshot
MalformedPanelCandidates ==
    {[cls |-> "SystemHealthSnapShot",
      val |-> Obj([host |-> HostSample, collected_at |-> Datetime(1),
                   cpu |-> c.val])] : c \in CPUCandidates}

\* the candidates: the two families above, one malformed panel in a snapshot,
\* and snapshots with every subset of the panels present, host absent, null or
\* well-formed, collected_at absent or given
IsCandidate(c) ==
    \/ c \in CPUCandidates
    \/ c \in PercentCandidates
    \/ c \in MalformedPanelCandidates
    \/ \E present \in SUBSET Panels, h \in {Absent, None, HostSample}, at \in {Absent, Datetime(1)} :
          c = SnapShotCandidate(present, h, at)

\* ---- the validator on its own ----

ValInit ==
    /\ maxlen = 1
    /\ cpu_buf = <<>>
    /\ hist = <<>>
    /\ samplerPc = "unstarted"
    /\ pc = [s \in Subs |-> "idle"]
    /\ last_len = [s \in Subs |-> 0]
    /\ msg = [s \in Subs |-> None]
    /\ delivered = [s \in Subs |-> <<>>]
    /\ resp = [op |-> "none", status |-> 0, body |-> None]
    /\ IsCandidate(cand)
    /\ verdict = "pending"

\* the candidate is validated against its class
RunValidate ==
    /\ verdict = "pending"
    /\ verdict' = Validate(cand.cls, cand.val)
    /\ UNCHANGED <<maxlen, cpu_buf, hist, samplerPc, pc, last_len, msg, delivered, resp, cand>>

ValNext == RunValidate

ValSpec == ValInit /\ [][ValNext]_vars

\* ---- properties ----

Min(a, b) == IF a < b THEN a ELSE b

\* the last n elements of seq
LastN(seq, n) == SubSeq(seq, Len(seq) - n + 1, Len(seq))

\* the connection is inside the while loop of stream()
InLoop(s) == pc[s] \in {"sending", "sleeping"}

\* payloads the connection has handed to send_json so far, completed or pending
Handed(s) == IF msg[s] = None THEN delivered[s] ELSE Append(delivered[s], msg[s])

\* the connection has delivered entry number k or a later one
DeliveredFrom(s, k) == \E i \in 1..Len(delivered[s]) : delivered[s][i].cpu.t >= k

\* C1: after M appends the buffer holds exactly the last min(M, N) appended
\* entries, oldest to newest; the M-N oldest are gone when M > N.
C1_FifoEviction ==
    cpu_buf = LastN(hist, Min(Len(hist), maxlen))

C1_Witness ==
    /\ maxlen >= 2
    /\ Len(hist) > maxlen
    /\ cpu_buf = LastN(hist, maxlen)

\* C2: whenever entry number k has been appended, a connection that is in its
\* streaming loop eventually delivers entry k or a later one (unless it closes).
C2_EventuallyDelivers ==
    \A s \in Subs : \A k \in 1..MaxAppends :
        (Len(hist) >= k /\ InLoop(s)) ~> (pc[s] = "closed" \/ DeliveredFrom(s, k))

\* C3: after a non-empty sequence of appends, /metrics/now answers with exactly
\* the most recently appended entry.
C3_NowReturnsNewest ==
    [][(MetricsNow /\ hist # <<>>) =>
          resp' = [op |-> "metrics_now", status |-> 200,
                   body |-> [cpu |-> hist[Len(hist)]]]]_vars

C3_Witness ==
    /\ Len(hist) > maxlen
    /\ resp.op = "metrics_now"
    /\ resp.body.cpu = hist[Len(hist)]

\* C4: the payloads one connection hands to its transport are in append order:
\* none was appended earlier than one handed over before it.
C4_DeliveryInAppendOrder ==
    \A s \in Subs : \A i, j \in 1..Len(Handed(s)) :
        i < j => Handed(s)[i].cpu.t <= Handed(s)[j].cpu.t

C4_Witness ==
    \E s \in Subs : Len(delivered[s]) >= 2 /\ samplerPc # "dead"

\* C5: once the sampler appends no more, two connections that are both in their
\* streaming loops eventually both have the most recently appended entry as
\* their last delivery (unless one of them closes).
C5_SameFinalValue ==
    \A a, b \in Subs :
        (a # b /\ samplerPc = "dead" /\ hist # <<>> /\ InLoop(a) /\ InLoop(b))
        ~> \/ pc[a] = "closed"
           \/ pc[b] = "closed"
           \/ /\ delivered[a] # <<>>
              /\ delivered[b] # <<>>
              /\ delivered[a][Len(delivered[a])] = [cpu |-> hist[Len(hist)]]
              /\ delivered[b][Len(delivered[b])] = [cpu |-> hist[Len(hist)]]

\* C6: the version marker the connections compare against is strictly larger
\* after every append than before it.
C6_VersionStrictlyIncreases ==
    [][SamplerCycle => Version(cpu_buf') > Version(cpu_buf)]_vars

\* C7: only the sampler changes the buffer: /health, /metrics/now and every
\* step of every connection leave its contents and length as they are.
C7_SingleWriter ==
    [][/\ (cpu_buf' # cpu_buf) => SamplerCycle
       /\ (\/ Health
           \/ MetricsNow
           \/ \E s \in Subs : Connect(s) \/ Accept(s) \/ SendDone(s) \/ Wake(s) \/ Disconnect(s))
          => (cpu_buf' = cpu_buf /\ Len(cpu_buf') = Len(cpu_buf))]_vars

C7_Witness ==
    /\ resp.op = "metrics_now"
    /\ resp.body.cpu # None
    /\ cpu_buf # <<>>
    /\ \E s \in Subs : delivered[s] # <<>> /\ pc[s] = "closed"
    /\ \E s \in Subs : pc[s] = "sleeping" /\ last_len[s] = Len(cpu_buf)

\* C8: when one connection ends, only its own loop ends: the buffer, the
\* sampler and every other connection's marker, position, pending payload and
\* deliveries stay as they are.
C8_DisconnectIsLocal ==
    [][\A s \in Subs : Disconnect(s) =>
          /\ pc'[s] = "closed"
          /\ cpu_buf' = cpu_buf
          /\ hist' = hist
          /\ samplerPc' = samplerPc
          /\ \A o \in Subs \ {s} :
                /\ pc'[o] = pc[o]
                /\ last_len'[o] = last_len[o]
                /\ msg'[o] = msg[o]
                /\ delivered'[o] = delivered[o]]_vars

C8_Witness ==
    \E s, o \in Subs :
        /\ pc[s] = "closed"
        /\ pc[o] = "sending"
        /\ delivered[o] # <<>>
        /\ samplerPc = "sleeping"

\* C9: GET /health answers {ok: true} whatever the state of the buffer and of
\* the sampler, and changes nothing but the response.
C9_HealthAlwaysOk ==
    [][Health =>
          /\ resp' = [op |-> "health", status |-> 200, body |-> [ok |-> TRUE]]
          /\ UNCHANGED <<maxlen, cpu_buf, hist, samplerPc, pc, last_len, msg, delivered>>]_vars

C9_Witness ==
    /\ resp.op = "health"
    /\ resp.body.ok
    /\ samplerPc = "dead"
    /\ Len(cpu_buf) = maxlen

\* C10: before any append, /metrics/now answers normally with a null cpu value
\* and leaves the buffer empty.
C10_NowOnEmptyIsNull ==
    [][(MetricsNow /\ hist = <<>>) =>
          /\ resp'.status = 200
          /\ resp'.body = [cpu |-> None]
          /\ cpu_buf' = <<>>]_vars

C10_Witness ==
    /\ resp.op = "metrics_now"
    /\ resp.status = 200
    /\ resp.body = [cpu |-> None]
    /\ cpu_buf = <<>>

\* ---- properties of the validator ----

\* the candidate has been validated and is a mapping for class cls
Validated(cls) == verdict # "pending" /\ verdict # "idle" /\ cand.cls = cls

\* the fields of a CPU candidate other than usage_total_pct satisfy the
\* constraints CPUModel and CPUCoreUsage declare for them
CPUOtherwiseWellFormed(o) ==
    /\ "sample_interval_s" \in DOMAIN o =>
          (o.sample_interval_s = None \/ o.sample_interval_s.num >= 0)
    /\ "physical_cores" \in DOMAIN o => o.physical_cores.num >= 1
    /\ "per_core" \in DOMAIN o =>
          \A i \in 1..Len(o.per_core.list) :
              /\ o.per_core.list[i].obj.core_index.num >= 0
              /\ o.per_core.list[i].obj.usage_pct.num \in 0..100

\* C11: a CPU panel whose usage_total_pct is outside [0,100] is rejected, and
\* the otherwise identical well-formed panel with the value inside is accepted.
C11_UsageTotalPctRange ==
    (Validated("CPUModel") /\ "usage_total_pct" \in DOMAIN cand.val.obj) =>
        LET u == cand.val.obj.usage_total_pct.num
        IN  /\ u \notin 0..100 => verdict = "rejected"
            /\ (u \in 0..100 /\ CPUOtherwiseWellFormed(cand.val.obj)) => verdict = "accepted"

C11_Witness ==
    /\ Validated("CPUModel")
    /\ verdict = "rejected"
    /\ DOMAIN cand.val.obj = {"usage_total_pct", "sample_interval_s", "physical_cores", "per_core"}
    /\ cand.val.obj.usage_total_pct = Num(101)
    /\ CPUOtherwiseWellFormed(cand.val.obj)
    /\ cand.val.obj.per_core.list # <<>>

\* C12: a candidate in which a percentage field is negative or exceeds 100 is
\* rejected, for every percentage field of every class.
C12_AllPercentagesBounded ==
    \A pf \in PercentFields :
        (/\ Validated(pf[1])
         /\ pf[2] \in DOMAIN cand.val.obj
         /\ DOMAIN cand.val.obj[pf[2]] = {"num"}
         /\ cand.val.obj[pf[2]].num \notin 0..100)
        => verdict = "rejected"

\* the panels a snapshot candidate has
PresentPanels == Panels \cap DOMAIN cand.val.obj

\* C13: a snapshot whose required fields are present is accepted whichever
\* optional panels are absent, the present ones being well-formed.
C13_AbsentPanelsAccepted ==
    (/\ Validated("SystemHealthSnapShot")
     /\ "host" \in DOMAIN cand.val.obj
     /\ cand.val.obj.host = HostSample
     /\ "collected_at" \in DOMAIN cand.val.obj
     /\ \A n \in PresentPanels : cand.val.obj[n] = PanelSamples[n])
    => verdict = "accepted"

C13_Witness ==
    /\ Validated("SystemHealthSnapShot")
    /\ verdict = "accepted"
    /\ DOMAIN cand.val.obj = {"host", "collected_at", "cpu", "ram"}
    /\ cand.val.obj.cpu = PanelSamples["cpu"]

\* ---- properties of the sampler and of the stream, continued ----

\* C14: the marker a connection records after a delivery identifies the entry
\* it delivered: when an append happened while the send was suspended (the
\* delivered entry is no longer the newest), the recorded marker differs from
\* the buffer's version, so that the next poll detects the change.  Stated for
\* buffers that have not evicted yet, where the version counts the appends.
C14_MarkerIdentifiesDelivered ==
    [][\A s \in Subs : (SendDone(s) /\ Len(hist) <= maxlen) =>
          (msg[s].cpu # Latest(cpu_buf) => last_len'[s] # Version(cpu_buf'))]_vars

\* C15: a poll sends only if the version differs from the recorded marker; a
\* poll that finds the version equal to the marker sends nothing; no payload is
\* delivered twice on one connection.
C15_SendOnlyOnChange ==
    [][\A s \in Subs :
          /\ ((Accept(s) \/ Wake(s)) /\ pc'[s] = "sending") => Version(cpu_buf) # last_len'[s]
          /\ (Wake(s) /\ Version(cpu_buf) = last_len[s]) =>
                (pc'[s] = "sleeping" /\ msg' = msg /\ delivered' = delivered)
          /\ SendDone(s) => \A i \in 1..Len(delivered[s]) : delivered[s][i] # msg[s]]_vars

C15_Witness ==
    \E s \in Subs :
        /\ Len(delivered[s]) >= 2
        /\ pc[s] = "sleeping"
        /\ last_len[s] = Version(cpu_buf)
        /\ samplerPc = "sleeping"

\* C16: the payload of every send is the entry that was the newest at the step
\* in which the connection detected the change, and that payload is what is
\* delivered, whatever is appended while the send is suspended.
C16_PayloadIsNewestAtDetection ==
    [][\A s \in Subs :
          /\ (pc[s] # "sending" /\ pc'[s] = "sending") =>
                (hist # <<>> /\ hist' = hist /\ msg'[s] = [cpu |-> hist[Len(hist)]])
          /\ SendDone(s) => delivered'[s] = Append(delivered[s], msg[s])]_vars

C16_Witness ==
    \E s \in Subs :
        /\ pc[s] = "sleeping"
        /\ delivered[s] # <<>>
        /\ delivered[s][Len(delivered[s])] # [cpu |-> Latest(cpu_buf)]
        /\ Len(cpu_buf) < maxlen

\* psutil.cpu_percent readings
Readings == {0, 50, 100}

\* the dict of lines 21-25 for entry e when the reading was total
SamplerDict(e, total) ==
    Obj([t |-> Num(e.t), total |-> Num(total), per_core |-> List(<<Num(total)>>)])

\* C17: every entry in the buffer's history has passed validation as a CPU
\* panel of the snapshot contract, whatever its readings.
C17_AppendedEntriesValidated ==
    \A i \in 1..Len(hist) : \A total \in Readings :
        Validate("CPUModel", SamplerDict(hist[i], total)) = "accepted"

\* C18: a failed collection ends the sampler for good: from then on nothing is
\* appended and the buffer keeps its contents, while /health, /metrics/now and
\* the connections can still take their steps.
C18_CollectFailureIsFinal ==
    [][/\ SamplerCollectFail => (samplerPc' = "dead" /\ cpu_buf' = cpu_buf /\ hist' = hist)
       /\ samplerPc = "dead" =>
             /\ samplerPc' = "dead" /\ cpu_buf' = cpu_buf /\ hist' = hist
             /\ ENABLED Health
             /\ ENABLED MetricsNow
             /\ \A s \in Subs :
                   /\ pc[s] = "sleeping" => ENABLED Wake(s)
                   /\ pc[s] = "sending" => ENABLED SendDone(s)
                   /\ pc[s] = "accepting" => ENABLED Accept(s)]_vars

C18_Witness ==
    /\ samplerPc = "dead"
    /\ cpu_buf # <<>>
    /\ resp = MetricsNowResult(cpu_buf)
    /\ \E s \in Subs : pc[s] = "sending" /\ delivered[s] = <<>>

\* C19: cycles do not overlap: an append is one step of the sampler, taken
\* from the top of its loop and ending in the sleep; the top of the loop is
\* reached only by the start of the single task or by the end of a sleep.
C19_CyclesSequential ==
    [][/\ hist' # hist =>
             (samplerPc = "ready" /\ samplerPc' = "sleeping" /\ Len(hist') = Len(hist) + 1)
       /\ (samplerPc # "ready" /\ samplerPc' = "ready") =>
             (samplerPc \in {"unstarted", "sleeping"} /\ hist' = hist)
       /\ samplerPc # "unstarted" => samplerPc' # "unstarted"]_vars

C19_Witness ==
    /\ Len(hist) >= 2
    /\ samplerPc = "ready"

\* C20: unless a collection fails, the sampler goes on appending, whatever the
\* requests and the connections do: it never stops short of the last append
\* the model allows.
C20_SamplerKeepsAppending ==
    <>(Len(hist) = MaxAppends \/ samplerPc = "dead")

C20_Witness ==
    /\ Len(hist) = MaxAppends
    /\ samplerPc = "sleeping"
    /\ \E s \in Subs : pc[s] = "closed"
    /\ \E s \in Subs : pc[s] = "sending"

\* ---- properties, continued ----

\* the snapshot candidate's present panels are all well-formed
PanelsWellFormed == \A n \in PresentPanels : cand.val.obj[n] = PanelSamples[n]

\* C21 as claimed: a snapshot that lacks the collection timestamp or lacks the
\* host identity is rejected, and a snapshot is accepted only when both are
\* present.
C21_TimestampAndHostRequired ==
    Validated("SystemHealthSnapShot") =>
        /\ ("collected_at" \notin DOMAIN cand.val.obj \/ "host" \notin DOMAIN cand.val.obj)
              => verdict = "rejected"
        /\ verdict = "accepted"
              => ("collected_at" \in DOMAIN cand.val.obj /\ "host" \in DOMAIN cand.val.obj)

\* C21 as amended: a snapshot that lacks the host identity (or has it null) is
\* rejected; a snapshot with a well-formed host and well-formed panels is
\* accepted whether or not it carries the collection timestamp.
C21_HostRequiredTimestampDefaulted ==
    Validated("SystemHealthSnapShot") =>
        /\ ("host" \notin DOMAIN cand.val.obj) => verdict = "rejected"
        /\ verdict = "accepted" => ("host" \in DOMAIN cand.val.obj /\ cand.val.obj.host # None)
        /\ ("host" \in DOMAIN cand.val.obj /\ cand.val.obj.host = HostSample /\ PanelsWellFormed)
              => verdict = "accepted"

C21_Witness ==
    /\ Validated("SystemHealthSnapShot")
    /\ verdict = "accepted"
    /\ "collected_at" \notin DOMAIN cand.val.obj
    /\ cand.val.obj.host = HostSample
    /\ PresentPanels = {"cpu"}

\* C22: the buffer's length lies between 0 and the capacity and never
\* decreases: an append adds one until the length equals the capacity, and
\* leaves it at the capacity from then on; no other step changes it.
C22_LengthBoundedMonotone ==
    [][/\ Len(cpu_buf) \in 0..maxlen
       /\ Len(cpu_buf') \in 0..maxlen
       /\ Len(cpu_buf') >= Len(cpu_buf)
       /\ SamplerCycle =>
             Len(cpu_buf') = (IF Len(cpu_buf) < maxlen THEN Len(cpu_buf) + 1 ELSE maxlen)
       /\ Len(hist') = Len(hist) => Len(cpu_buf') = Len(cpu_buf)]_vars

C22_Witness ==
    /\ Len(cpu_buf) = maxlen
    /\ Len(hist) = maxlen + 2
    /\ samplerPc = "sleeping"

\* C23: at its first poll (the step in which ws.accept returns) a connection
\* starts sending the newest entry if the buffer is not empty, partly filled or
\* full, and goes to sleep with nothing to send if it is empty; as long as
\* nothing has been appended, no connection has sent or is sending anything.
C23_FirstPoll ==
    [][/\ \A s \in Subs : Accept(s) =>
             IF hist # <<>>
             THEN pc'[s] = "sending" /\ msg'[s] = [cpu |-> hist[Len(hist)]]
             ELSE pc'[s] = "sleeping" /\ msg'[s] = None
       /\ hist = <<>> => \A s \in Subs : delivered[s] = <<>> /\ msg[s] = None /\ pc[s] # "sending"]_vars

C23_Witness ==
    \E s \in Subs :
        /\ pc[s] = "sending"
        /\ last_len[s] = 0
        /\ delivered[s] = <<>>
        /\ Len(hist) > maxlen
        /\ msg[s] = [cpu |-> hist[Len(hist)]]
        /\ samplerPc = "dead"
====
